---- MODULE Spec2Model ----
(***************************************************************************)
(* Model of prev-iter's PrevPeekable<I> (src/src/lib.rs): an iterator      *)
(* adapter over std::iter::Peekable<I> that remembers the element before   *)
(* the one it returned last.                                               *)
(*                                                                         *)
(* Option<T> is modelled as a sequence of length at most one: None is <<>> *)
(* and Some(x) is <<x>>.  The underlying iterator I is a list of poll      *)
(* results (`items`, each None or Some(v)) followed by None forever, so a  *)
(* source that yields again after it has signalled its end is part of the  *)
(* model and "idempotent exhaustion" is a real precondition.               *)
(***************************************************************************)
EXTENDS Integers, Sequences, FiniteSets, TLC

\* ---------------------------------------------------------------- bounds
MaxLen == 3      \* longest list of poll results the source is built from
MaxVal == 3      \* items are drawn from 1..MaxVal
MaxCalls == 6    \* number of next() calls explored in one behaviour

Vals == 1..MaxVal

\* ------------------------------------------------------------ Option<T>
None == <<>>
Some(x) == <<x>>
IsSome(o) == o # None
Unwrap(o) == o[1]

OptVals == {None} \cup {Some(v) : v \in Vals}

SeqsUpTo(A, k) == UNION {[1..m -> A] : m \in 0..k}

VARIABLES
    items,      \* what the underlying iterator I answers, poll by poll
    iterator,   \* Peekable<I>: [iter |-> polls made on I, peeked |-> Option<Option<Item>>]
    prev,       \* Option<Item>
    current,    \* Option<Item>
    finished,   \* bool
    op,         \* the last method called
    ret,        \* what that method returned
    out,        \* the results of the next() calls so far, in order
    pop,        \* the method called before the last one
    pval,       \* the value that call returned (a reference read through)
    twin        \* a second PrevPeekable on the same source, given the same
                \* calls except the peek() calls: [self, ret]

vars == <<items, iterator, prev, current, finished, op, ret, out, pop, pval, twin>>

\* --------------------------------------------------- the underlying source
\* I::next() as the p+1-th poll of the source: the listed answer, then None.
I_next(p) == IF p < Len(items) THEN items[p + 1] ELSE None

\* ------------------------------------------------------- std Peekable<I>
\* Peekable::peek: fill the one-slot buffer from the source if it is empty,
\* then hand out a reference into the buffer (None if the buffered poll
\* result is None).
Peekable_peek(it) ==
    LET filled == IF it.peeked = None
                  THEN [iter |-> it.iter + 1, peeked |-> Some(I_next(it.iter))]
                  ELSE it
    IN  [self |-> filled,
         ret  |-> IF IsSome(Unwrap(filled.peeked)) THEN Some("iterator.peeked") ELSE None]

\* Peekable::next: take the buffered poll result if there is one, else poll.
Peekable_next(it) ==
    IF it.peeked # None
    THEN [self |-> [it EXCEPT !.peeked = None], ret |-> Unwrap(it.peeked)]
    ELSE [self |-> [it EXCEPT !.iter = @ + 1], ret |-> I_next(it.iter)]

\* ------------------------------------------------------------ PrevPeekable
Self == [iterator |-> iterator, prev |-> prev, current |-> current, finished |-> finished]

\* The value behind a reference returned by peek() or prev_peek().
Deref(r) ==
    IF r = "prev" THEN Unwrap(prev) ELSE Unwrap(Unwrap(iterator.peeked))

\* The value a returned Option<&Item> refers to, as an Option<Item>.
Pointee(r) == IF r = None THEN None ELSE Some(Deref(Unwrap(r)))

\* The value the last call returned, read while its borrow is still live.
RetValue == IF op \in {"peek", "prev_peek"} THEN Pointee(ret) ELSE ret

\* Every call: remember the call before it and what that call returned.
Called(m) ==
    /\ op' = m
    /\ pop' = op
    /\ pval' = RetValue

\* Variant: the old current is dropped instead of being moved into prev.
replace_current_drops_old(self) ==
    LET nx == Peekable_next(self.iterator)
    IN  [self EXCEPT !.iterator = nx.self, !.current = nx.ret]

\* Variant: prev is conflated with current (both get the new item).
replace_current_conflated(self) ==
    LET nx == Peekable_next(self.iterator)
    IN  [self EXCEPT !.iterator = nx.self, !.prev = nx.ret, !.current = nx.ret]

\* self.prev = std::mem::replace(&mut self.current, self.iterator.next());
replace_current(self) ==
    LET nx == Peekable_next(self.iterator)
    IN  [self EXCEPT !.iterator = nx.self, !.prev = self.current, !.current = nx.ret]

\* Variant: the branch returns the clone of prev, not of current.
next_some_returns_prev(self) ==
    LET s == replace_current(self)
    IN  [self |-> s, ret |-> s.prev]

\* Variant: the branch returns the item but leaves the slots alone.
next_some_keeps_slots(self) ==
    LET nx == Peekable_next(self.iterator)
    IN  [self |-> [self EXCEPT !.iterator = nx.self], ret |-> nx.ret]

\* Variant: the branch refills the lookahead buffer before returning.
next_some_prefetches(self) ==
    LET s == replace_current(self)
        pk == Peekable_peek(s.iterator)
    IN  [self |-> [s EXCEPT !.iterator = pk.self], ret |-> s.current]

\* The branch of next() taken when peek() is Some(_).
next_some(self) ==
    LET s == replace_current(self)
    IN  [self |-> s, ret |-> s.current]

\* Variant: the branch forgets to set finished.
next_finish_keeps_flag(self) ==
    LET s == replace_current(self)
    IN  [self |-> s, ret |-> None]

\* Variant: the branch overwrites prev with the polled None.
next_finish_clears_prev(self) ==
    LET nx == Peekable_next(self.iterator)
    IN  [self |-> [self EXCEPT !.iterator = nx.self, !.prev = nx.ret, !.finished = TRUE],
         ret  |-> None]

\* The branch of next() taken when peek() is None and finished is false.
next_finish(self) ==
    LET s == replace_current(self)
    IN  [self |-> [s EXCEPT !.finished = TRUE], ret |-> None]

\* Variant: no !finished branch, the state is left alone at the end.
next_result_no_finish(self) ==
    LET pk == Peekable_peek(self.iterator)
        s0 == [self EXCEPT !.iterator = pk.self]
    IN  IF IsSome(pk.ret) THEN next_some(s0)
        ELSE [self |-> s0, ret |-> None]

\* Variant: the end branch is taken again whatever finished says.
next_result_ignores_flag(self) ==
    LET pk == Peekable_peek(self.iterator)
        s0 == [self EXCEPT !.iterator = pk.self]
    IN  IF IsSome(pk.ret) THEN next_some(s0)
        ELSE next_finish(s0)

\* Iterator::next for PrevPeekable.
next_result(self) ==
    LET pk == Peekable_peek(self.iterator)
        s0 == [self EXCEPT !.iterator = pk.self]
    IN  IF IsSome(pk.ret) THEN next_some(s0)
        ELSE IF ~self.finished THEN next_finish(s0)
        ELSE [self |-> s0, ret |-> None]

\* Variant: the constructor pulls the first item into current.
PrevPeekable_new_prefetches ==
    /\ iterator = [iter |-> 1, peeked |-> None]
    /\ prev = None
    /\ current = I_next(0)
    /\ finished = FALSE

PrevPeekable_new ==
    /\ iterator = [iter |-> 0, peeked |-> None]
    /\ prev = None
    /\ current = None
    /\ finished = FALSE

Init ==
    /\ items \in SeqsUpTo(OptVals, MaxLen)
    /\ PrevPeekable_new
    /\ op = "new"
    /\ ret = None
    /\ out = <<>>
    /\ pop = "new"
    /\ pval = None
    /\ twin = [self |-> Self, ret |-> None]

PrevPeekable_next ==
    /\ Len(out) < MaxCalls
    /\ LET r == next_result(Self)
       IN  /\ iterator' = r.self.iterator
           /\ prev' = r.self.prev
           /\ current' = r.self.current
           /\ finished' = r.self.finished
           /\ ret' = r.ret
           /\ out' = Append(out, r.ret)
    /\ Called("next")
    /\ twin' = next_result(twin.self)
    /\ UNCHANGED items

\* Variant: peek() hands out the previous element (self.prev.as_ref()).
PrevPeekable_peek_prev ==
    /\ ret' = IF IsSome(prev) THEN Some("prev") ELSE None
    /\ Called("peek")
    /\ UNCHANGED <<items, iterator, prev, current, finished, out, twin>>

\* Variant: peek() steps over the buffered element before peeking.
PrevPeekable_peek_advances ==
    /\ LET r == Peekable_peek(Peekable_next(iterator).self)
       IN  /\ iterator' = r.self
           /\ ret' = r.ret
    /\ Called("peek")
    /\ UNCHANGED <<items, prev, current, finished, out, twin>>

\* Variant: peek() answers from the buffer only and never fills it.
PrevPeekable_peek_no_fill ==
    /\ ret' = IF iterator.peeked # None /\ IsSome(Unwrap(iterator.peeked))
              THEN Some("iterator.peeked") ELSE None
    /\ Called("peek")
    /\ UNCHANGED <<items, iterator, prev, current, finished, out, twin>>

PrevPeekable_peek ==
    /\ LET r == Peekable_peek(iterator)
       IN  /\ iterator' = r.self
           /\ ret' = r.ret
    /\ Called("peek")
    /\ UNCHANGED <<items, prev, current, finished, out, twin>>

\* Variant: prev() clones current instead of prev.
PrevPeekable_prev_returns_current ==
    /\ ret' = current
    /\ Called("prev")
    /\ twin' = [twin EXCEPT !.ret = twin.self.prev]
    /\ UNCHANGED <<items, iterator, prev, current, finished, out>>

\* self.prev.clone()
PrevPeekable_prev ==
    /\ ret' = prev
    /\ Called("prev")
    /\ twin' = [twin EXCEPT !.ret = twin.self.prev]
    /\ UNCHANGED <<items, iterator, prev, current, finished, out>>

\* Variant: a reference to the slot itself, whether or not it holds a value.
PrevPeekable_prev_peek_slot ==
    /\ ret' = Some("prev")
    /\ Called("prev_peek")
    /\ twin' = [twin EXCEPT !.ret = twin.self.prev]
    /\ UNCHANGED <<items, iterator, prev, current, finished, out>>

\* self.prev.as_ref()
PrevPeekable_prev_peek ==
    /\ ret' = IF IsSome(prev) THEN Some("prev") ELSE None
    /\ Called("prev_peek")
    /\ twin' = [twin EXCEPT !.ret = twin.self.prev]
    /\ UNCHANGED <<items, iterator, prev, current, finished, out>>

Next ==
    \/ PrevPeekable_next
    \/ PrevPeekable_peek
    \/ PrevPeekable_prev
    \/ PrevPeekable_prev_peek

Spec == Init /\ [][Next]_vars

\* ------------------------------------------------ vocabulary of the claims
\* Index of the first None among the source's answers (Len(items)+1 if none).
FirstNone ==
    IF \E i \in 1..Len(items) : items[i] = None
    THEN CHOOSE i \in 1..Len(items) :
            /\ items[i] = None
            /\ \A j \in 1..(i - 1) : items[j] # None
    ELSE Len(items) + 1

\* The source sequence: the elements produced before the first None.
S == [i \in 1..(FirstNone - 1) |-> Unwrap(items[i])]
n == Len(S)

\* The source keeps answering None once it has answered None.
Idempotent == \A i \in FirstNone..Len(items) : items[i] = None

\* The step is a call of next() / of peek().
IsNextStep == Len(out') = Len(out) + 1
IsPeekStep == op' = "peek"

\* Some earlier next() call returned None.
ReturnedNone == \E i \in 1..Len(out) : out[i] = None

\* C1: on a source S of length n >= 1, the first n calls of next() return
\* Some(S[1]), ..., Some(S[n]) in order and call n+1 returns None.
C1_NextYieldsSource ==
    n >= 1 =>
        \A i \in 1..Len(out) :
            /\ i <= n => out[i] = Some(S[i])
            /\ i = n + 1 => out[i] = None

C1_Witness ==
    /\ n >= 2
    /\ Len(out) = n + 1
    /\ S[1] # S[2]
    /\ out[n] = Some(S[n])
    /\ out[n + 1] = None

\* C2: for 2 <= i <= n, from the i-th call of next() until the following
\* one, the prev slot, and so prev(), is what call i-1 returned: the
\* (i-1)-th element of S counting from one.
C2_PrevIsPreviousResult ==
    \A i \in 2..n :
        Len(out) = i =>
            /\ prev = out[i - 1]
            /\ prev = Some(S[i - 1])
            /\ op = "prev" => ret = Some(S[i - 1])

C2_Witness ==
    /\ n >= 3
    /\ Len(out) = n
    /\ op = "prev"
    /\ ret = Some(S[n - 1])
    /\ S[n - 1] # S[n]

\* C3: prev() and prev_peek() return None on a fresh PrevPeekable and still
\* return None after the first call of next() on a non-empty source.
C3_NoPrevBeforeSecondNext ==
    (Len(out) = 0 \/ (Len(out) = 1 /\ n >= 1)) =>
        /\ prev = None
        /\ op \in {"prev", "prev_peek"} => ret = None

C3_Witness ==
    /\ n >= 1
    /\ Len(out) = 1
    /\ out[1] = Some(S[1])
    /\ op = "prev_peek"
    /\ ret = None

\* C4: on a non-empty source with idempotent exhaustion, once next() has
\* returned None, prev() and prev_peek() give the last element of S, and keep
\* giving it after any further next() calls.
C4_PrevIsLastAfterEnd ==
    (Idempotent /\ n >= 1 /\ ReturnedNone) =>
        /\ prev = Some(S[n])
        /\ op = "prev" => ret = Some(S[n])
        /\ op = "prev_peek" => (ret = Some("prev") /\ Pointee(ret) = Some(S[n]))

C4_Witness ==
    /\ Idempotent
    /\ n >= 2
    /\ S[n - 1] # S[n]
    /\ Len(out) >= n + 2
    /\ op = "prev_peek"
    /\ Pointee(ret) = Some(S[n])
    /\ pop = "prev"
    /\ pval = Some(S[n])

\* C5 as stated: from the n-th call of next() (the one returning the last
\* element) on, prev() is the last element of S.
C5_Original ==
    (Idempotent /\ n >= 1 /\ Len(out) >= n) =>
        /\ prev = Some(S[n])
        /\ op = "prev" => ret = Some(S[n])

\* C5 amended: after the n-th call of next() prev() is still the element
\* before the last one (None if n = 1); from call n+1, the first to return
\* None, on, prev() is the last element of S.
C5_PrevAtAndAfterLast ==
    (Idempotent /\ n >= 1) =>
        /\ Len(out) = n =>
              /\ prev = (IF n = 1 THEN None ELSE Some(S[n - 1]))
              /\ op = "prev" => ret = prev
        /\ Len(out) > n =>
              /\ prev = Some(S[n])
              /\ op = "prev" => ret = Some(S[n])

C5_Witness ==
    /\ Idempotent
    /\ n >= 2
    /\ S[n - 1] # S[n]
    /\ Len(out) = n + 1
    /\ op = "prev"
    /\ ret = Some(S[n])
    /\ pop = "next"
    /\ pval = None

\* C6: peek() returns exactly what the call of next() right after it
\* returns, Some(x) or None alike.
C6_PeekIsNextResult ==
    /\ [][(op = "peek" /\ IsNextStep) => ret' = Pointee(ret)]_vars
    /\ []((op = "next" /\ pop = "peek") => ret = pval)

C6_Witness ==
    /\ Idempotent
    /\ n >= 2
    /\ S[1] # S[2]
    /\ Len(out) = 2
    /\ op = "next"
    /\ pop = "peek"
    /\ pval = Some(S[2])
    /\ ret = Some(S[2])

\* C7: peek() calls with no next() in between all return the same value and
\* leave prev, current and finished alone, and the following next() returns
\* what it would have returned without them.
C7_PeekIdempotent ==
    /\ [][IsPeekStep =>
            /\ prev' = prev
            /\ current' = current
            /\ finished' = finished
            /\ out' = out
            /\ next_result(Self)' = next_result(Self)
            /\ op = "peek" => (ret' = ret /\ Pointee(ret)' = Pointee(ret))]_vars
    /\ []((op = "peek" /\ pop = "peek") => RetValue = pval)

C7_Witness ==
    /\ n >= 2
    /\ Len(out) = 1
    /\ op = "peek"
    /\ pop = "peek"
    /\ RetValue = Some(S[2])
    /\ S[1] # S[2]

\* The source never produces an element.
EmptySource == n = 0 /\ Idempotent

\* C8: on an empty source next(), peek(), prev() and prev_peek() return None,
\* first and after any further calls, and prev and current stay None.
C8_EmptySourceAllNone ==
    EmptySource =>
        /\ ret = None
        /\ prev = None
        /\ current = None
        /\ \A i \in 1..Len(out) : out[i] = None

C8_Witness ==
    /\ EmptySource
    /\ Len(out) >= 2
    /\ op = "peek"
    /\ ret = None
    /\ pop = "prev_peek"

\* C9: with idempotent exhaustion, once next() has returned None every later
\* call of next() returns None and leaves prev, current and finished as they
\* were, current being None.
C9_NextAfterEndIsNoOp ==
    [][(Idempotent /\ ReturnedNone /\ IsNextStep) =>
            /\ ret' = None
            /\ prev' = prev
            /\ current' = current
            /\ current' = None
            /\ finished' = finished]_vars

C9_Witness ==
    /\ Idempotent
    /\ n >= 1
    /\ Len(out) >= n + 2
    /\ op = "next"
    /\ ret = None
    /\ prev = Some(S[n])
    /\ current = None

\* C10 as stated: every call of next() that returns None leaves prev and
\* current unchanged, the first such call included.
C10_Original ==
    [][(IsNextStep /\ ret' = None) => (prev' = prev /\ current' = current)]_vars

\* The source of the example, S = [1, 2, 3].
Example123 == items = <<Some(1), Some(2), Some(3)>>

\* C10 amended: a call of next() that returns None leaves prev and current
\* unchanged unless it is the first such call, which moves current into prev
\* and leaves current None; for S = [1,2,3], after the three elements and two
\* None results prev() returns 3.
C10_NoneCallFrame ==
    /\ [][(IsNextStep /\ ret' = None) =>
            IF ReturnedNone
            THEN prev' = prev /\ current' = current
            ELSE prev' = current /\ current' = None]_vars
    /\ []((Example123 /\ Len(out) = 5) =>
            /\ prev = Some(3)
            /\ op = "prev" => ret = Some(3))

C10_Witness ==
    /\ Example123
    /\ out = <<Some(1), Some(2), Some(3), None, None>>
    /\ op = "prev"
    /\ ret = Some(3)

\* C11 as stated: right after new(), exactly one item has been pulled from
\* the source and current holds the first source item (None if the source is
\* empty), prev being None.
C11_Original ==
    op = "new" =>
        /\ iterator.iter = 1
        /\ current = I_next(0)
        /\ prev = None

\* C11 amended: right after new() nothing has been pulled from the source,
\* the lookahead buffer is empty and current and prev are both None; until
\* the first next() current and prev stay None and at most one item (by a
\* peek()) has been pulled.
C11_NewIsLazy ==
    /\ op = "new" =>
          /\ iterator = [iter |-> 0, peeked |-> None]
          /\ ~finished
    /\ Len(out) = 0 =>
          /\ current = None
          /\ prev = None
          /\ iterator.iter = (IF iterator.peeked = None THEN 0 ELSE 1)

C11_Witness ==
    /\ op = "new"
    /\ n >= 2
    /\ iterator.iter = 0
    /\ current = None

\* C12 as stated: peek() changes nothing: the number of items pulled from the
\* source, the lookahead buffer, prev, current and finished are the same
\* before and after it.
C12_Original ==
    [][IsPeekStep =>
            /\ iterator' = iterator
            /\ prev' = prev
            /\ current' = current
            /\ finished' = finished]_vars

\* C12 amended: peek() leaves prev, current and finished unchanged; if the
\* lookahead buffer is empty it pulls exactly one poll result from the source
\* into the buffer, and if the buffer is filled it pulls nothing and leaves
\* the buffer as it is.
C12_PeekFillsBufferOnly ==
    [][IsPeekStep =>
            /\ prev' = prev
            /\ current' = current
            /\ finished' = finished
            /\ IF iterator.peeked = None
               THEN iterator' = [iter |-> iterator.iter + 1,
                                 peeked |-> Some(I_next(iterator.iter))]
               ELSE iterator' = iterator]_vars

C12_Witness ==
    /\ n >= 2
    /\ Len(out) = 1
    /\ op = "peek"
    /\ pop = "next"
    /\ iterator = [iter |-> 2, peeked |-> Some(Some(S[2]))]
    /\ current = Some(S[1])

\* C13: prev() and prev_peek() change neither prev, current, finished, the
\* lookahead buffer nor the source position, and they agree: prev() returns
\* Some(x) exactly when prev_peek() returns a reference to x, and both return
\* None together.
C13_PrevQueriesPureAndAgree ==
    /\ [][op' \in {"prev", "prev_peek"} =>
            UNCHANGED <<items, iterator, prev, current, finished, out>>]_vars
    /\ [](op = "prev" => ret = prev)
    /\ [](op = "prev_peek" => ((ret = None) <=> (prev = None)))
    /\ [](op = "prev_peek" => Pointee(ret) = prev)
    /\ []((op \in {"prev", "prev_peek"} /\ pop \in {"prev", "prev_peek"}) =>
            RetValue = pval)

C13_Witness ==
    /\ n >= 2
    /\ S[1] # S[2]
    /\ Len(out) = 2
    /\ op = "prev_peek"
    /\ pop = "prev"
    /\ ret = Some("prev")
    /\ RetValue = Some(S[1])
    /\ pval = Some(S[1])

\* C14: after a call of next() that returns Some(x), current holds x and prev
\* holds what the next() call before it returned, None if it was the first
\* call; prev is None as long as fewer than two next() calls were made.
C14_SlotsAfterSome ==
    /\ (Len(out) >= 1 /\ IsSome(out[Len(out)])) =>
          /\ current = out[Len(out)]
          /\ prev = (IF Len(out) = 1 THEN None ELSE out[Len(out) - 1])
    /\ Len(out) < 2 => prev = None

C14_Witness ==
    /\ n >= 3
    /\ Len(out) = 3
    /\ out = <<Some(S[1]), Some(S[2]), Some(S[3])>>
    /\ S[2] # S[3]
    /\ op = "next"
    /\ ret = Some(S[3])
    /\ current = Some(S[3])
    /\ prev = Some(S[2])

\* C15 as stated: after k calls of next(), 1 <= k < n, current holds the
\* item at position k counting from zero (the one not returned yet) and prev the
\* item at position k-1 (the one just returned).
C15_Original ==
    (1 <= Len(out) /\ Len(out) < n) =>
        /\ current = Some(S[Len(out) + 1])
        /\ prev = Some(S[Len(out)])

\* C15 amended: after k calls of next(), 1 <= k < n, current holds the item
\* at position k-1 counting from zero (the one just returned) and prev the
\* item at position k-2 (the one returned before it), None when k = 1.
C15_MidStreamSlots ==
    (1 <= Len(out) /\ Len(out) < n) =>
        /\ current = Some(S[Len(out)])
        /\ prev = (IF Len(out) = 1 THEN None ELSE Some(S[Len(out) - 1]))

C15_Witness ==
    /\ n >= 3
    /\ Len(out) = 2
    /\ S[1] # S[2]
    /\ S[2] # S[3]
    /\ current = Some(S[2])
    /\ prev = Some(S[1])
    /\ op = "next"

\* Polls of the source made by the step.
Polls == iterator'.iter - iterator.iter

\* C16 as stated: whatever peek() calls are interleaved, a call of next()
\* that returns an element pulls exactly one item from the source during the
\* call, and a call that returns None pulls nothing.
C16_Original ==
    [][IsNextStep => Polls = (IF IsSome(ret') THEN 1 ELSE 0)]_vars

\* C16 amended: a call of next() polls the source once if the lookahead
\* buffer is empty when it is called and not at all if it is filled; with
\* idempotent exhaustion, calls from the second one after the exhausting
\* call on never poll.
C16_NextPollsIffBufferEmpty ==
    /\ [][IsNextStep => Polls = (IF iterator.peeked = None THEN 1 ELSE 0)]_vars
    /\ [][(IsNextStep /\ Idempotent /\ Len(out) >= n + 2) => Polls = 0]_vars

C16_Witness ==
    /\ n >= 2
    /\ Len(out) = 2
    /\ op = "next"
    /\ pop = "peek"
    /\ ret = Some(S[2])
    /\ iterator = [iter |-> 2, peeked |-> None]

\* C17: peek() calls are invisible: the adapter and a second one on the same
\* source that gets the same next(), prev() and prev_peek() calls but none of
\* the peek() calls return the same values, and their prev, current and
\* finished agree.
C17_PeekTransparent ==
    /\ twin.self.prev = prev
    /\ twin.self.current = current
    /\ twin.self.finished = finished
    /\ op \in {"next", "prev", "prev_peek"} => RetValue = twin.ret

C17_Witness ==
    /\ n >= 3
    /\ Len(out) = 2
    /\ S[1] # S[2]
    /\ op = "prev"
    /\ pop = "peek"
    /\ ret = Some(S[1])
    /\ twin.ret = Some(S[1])
    /\ iterator = [iter |-> 3, peeked |-> Some(Some(S[3]))]
    /\ twin.self.iterator = [iter |-> 2, peeked |-> None]

\* C18: on a source of length n (idempotent exhaustion) the source is polled
\* at most n+2 times whatever next() and peek() calls are made; once finished
\* is set and the None poll result is buffered, the buffer is never taken and
\* the source never polled again.
C18_PollBound ==
    /\ [](Idempotent => iterator.iter <= n + 2)
    /\ []((Idempotent /\ iterator.iter = n + 2) =>
            (finished /\ iterator.peeked = Some(None)))
    /\ [][(finished /\ iterator.peeked = Some(None)) => iterator' = iterator]_vars

C18_Witness ==
    /\ Idempotent
    /\ n >= 2
    /\ Len(out) >= n + 3
    /\ finished
    /\ iterator = [iter |-> n + 2, peeked |-> Some(None)]
    /\ op = "peek"
    /\ pop = "next"

\* C19: finished is false after new(), becomes true on the first call of
\* next() that returns None and only there, is never reset, and with
\* idempotent exhaustion current is None whenever finished is true.
C19_FinishedFlag ==
    /\ [](Len(out) = 0 => ~finished)
    /\ [](finished <=> ReturnedNone)
    /\ [][(~finished /\ finished') => (IsNextStep /\ ret' = None)]_vars
    /\ [][finished => finished']_vars
    /\ []((Idempotent /\ finished) => current = None)

C19_Witness ==
    /\ Idempotent
    /\ n >= 2
    /\ Len(out) = n + 2
    /\ out[n] = Some(S[n])
    /\ out[n + 1] = None
    /\ finished
    /\ current = None
    /\ prev = Some(S[n])

====
